---- MODULE Spec2Model ----
(***************************************************************************)
(* The developer tooling of the userscript template.                       *)
(*                                                                         *)
(* Spec models scripts/check-grants.js: it reads meta.json, walks src/     *)
(* for .ts/.js files, collects every GM_ identifier of their text and      *)
(* compares the collection with the manifest's grant list.                 *)
(*                                                                         *)
(* Strings are tuples of one-character strings, so that the regular        *)
(* expression, startsWith and endsWith are computed on the characters.     *)
(* A path is a tuple of names.                                             *)
(***************************************************************************)
EXTENDS Integers, Sequences, FiniteSets, TLC

\* Longest "grant" array of a manifest the model enumerates.
MaxGrants == 2

\* Most calls of log a page makes besides the one of main.
MaxLogCalls == 2

----------------------------------------------------------------------------
\* Strings of the manifest and of the sources.

GM_setValue == <<"G", "M", "_", "s", "e", "t", "V", "a", "l", "u", "e">>
GM_getValue == <<"G", "M", "_", "g", "e", "t", "V", "a", "l", "u", "e">>
GM_setValues == <<"G", "M", "_", "s", "e", "t", "V", "a", "l", "u", "e", "s">>
GM_notification == <<"G", "M", "_", "n", "o", "t", "i", "f", "i", "c", "a", "t", "i", "o", "n">>
none == <<"n", "o", "n", "e">>
unsafeWindow == <<"u", "n", "s", "a", "f", "e", "W", "i", "n", "d", "o", "w">>

\* The entries a manifest's "grant" array is drawn from.
GrantStrings == {GM_setValue, GM_notification, none, unsafeWindow}

\* File texts.  TextTricky: "xGM_getValue GM_ //GM_setValues".
TextEmpty == <<>>
TextSet == <<"G", "M", "_", "s", "e", "t", "V", "a", "l", "u", "e", "(", "k", ",", "v", ")", ";">>
TextSetGet == <<"G", "M", "_", "s", "e", "t", "V", "a", "l", "u", "e", "(", "k", ")", ";", "G", "M", "_", "g", "e", "t", "V", "a", "l", "u", "e", "(", "k", ")">>
TextTwice == <<"G", "M", "_", "g", "e", "t", "V", "a", "l", "u", "e", "(", "a", ")", "+", "G", "M", "_", "g", "e", "t", "V", "a", "l", "u", "e", "(", "b", ")">>
TextTricky == <<"x", "G", "M", "_", "g", "e", "t", "V", "a", "l", "u", "e", " ", "G", "M", "_", " ", "/", "/", "G", "M", "_", "s", "e", "t", "V", "a", "l", "u", "e", "s">>
TextNotes == <<"G", "M", "_", "n", "o", "t", "i", "f", "i", "c", "a", "t", "i", "o", "n">>

\* Names of the source tree.
src == <<"s", "r", "c">>
index_ts == <<"i", "n", "d", "e", "x", ".", "t", "s">>
app_tsx == <<"a", "p", "p", ".", "t", "s", "x">>
lib == <<"l", "i", "b">>
utils_js == <<"u", "t", "i", "l", "s", ".", "j", "s">>
dom_ts == <<"d", "o", "m", ".", "t", "s">>
types_d_ts == <<"t", "y", "p", "e", "s", ".", "d", ".", "t", "s">>
meta_json == <<"m", "e", "t", "a", ".", "j", "s", "o", "n">>

----------------------------------------------------------------------------
\* String and collection primitives of the JavaScript the script uses.

Range(s) == {s[i] : i \in 1..Len(s)}

\* \w of a regular expression: [A-Za-z0-9_].
WordChars ==
    { "a", "b", "c", "d", "e", "f", "g", "h", "i", "j", "k", "l", "m", "n", "o", "p", "q",
      "r", "s", "t", "u", "v", "w", "x", "y", "z", "A", "B", "C", "D", "E", "F", "G", "H",
      "I", "J", "K", "L", "M", "N", "O", "P", "Q", "R", "S", "T", "U", "V", "W", "X", "Y",
      "Z", "0", "1", "2", "3", "4", "5", "6", "7", "8", "9", "_" }

\* String.prototype.startsWith.
StartsWith(s, prefix) ==
    /\ Len(prefix) <= Len(s)
    /\ SubSeq(s, 1, Len(prefix)) = prefix

\* String.prototype.endsWith.
EndsWith(s, suffix) ==
    /\ Len(suffix) <= Len(s)
    /\ SubSeq(s, Len(s) - Len(suffix) + 1, Len(s)) = suffix

\* Set.prototype.has on an insertion-ordered Set, kept as a tuple without
\* repetitions: SameValueZero on strings is equality of the whole string.
Has(set, x) == x \in Range(set)

\* Mutant of Add: Array.prototype.push, which keeps repetitions.
AddAgain(set, x) == Append(set, x)

\* Set.prototype.add: appends unless present.
Add(set, x) == IF Has(set, x) THEN set ELSE Append(set, x)

RECURSIVE AddAll(_, _)
AddAll(set, xs) ==
    IF xs = <<>> THEN set ELSE AddAll(Add(set, Head(xs)), Tail(xs))

\* new Set(iterable).
NewSet(xs) == AddAll(<<>>, xs)

\* path.join(dir, file).
Join(dir, file) == Append(dir, file)

----------------------------------------------------------------------------
\* content.matchAll(/\bGM_\w+/g)

IsWord(c) == c \in WordChars

\* \b at position p: exactly one of the characters before and at p is a
\* word character (the ends of the text count as non-word).
WordBoundary(content, p) ==
    LET before == p > 1 /\ IsWord(content[p - 1])
        after == p <= Len(content) /\ IsWord(content[p])
    IN  before # after

\* Greedy \w*: the position after the last word character from p on.
RECURSIVE WordEnd(_, _)
WordEnd(content, p) ==
    IF p <= Len(content) /\ IsWord(content[p])
    THEN WordEnd(content, p + 1)
    ELSE p
\* Mutant of MatchAt: the pattern without \b.
MatchAtAnywhere(content, p) ==
    IF /\ p + 2 <= Len(content)
       /\ SubSeq(content, p, p + 2) = <<"G", "M", "_">>
       /\ WordEnd(content, p + 3) > p + 3
    THEN WordEnd(content, p + 3)
    ELSE 0

\* One attempt of \bGM_\w+ at position p: the position after the match,
\* or 0 when the pattern does not match there.
MatchAt(content, p) ==
    IF /\ WordBoundary(content, p)
       /\ p + 2 <= Len(content)
       /\ SubSeq(content, p, p + 2) = <<"G", "M", "_">>
       /\ WordEnd(content, p + 3) > p + 3
    THEN WordEnd(content, p + 3)
    ELSE 0

\* The matches left to right; the search resumes after each match.
RECURSIVE MatchAllFrom(_, _)
MatchAllFrom(content, p) ==
    IF p > Len(content)
    THEN <<>>
    ELSE LET e == MatchAt(content, p)
         IN  IF e > 0
             THEN <<SubSeq(content, p, e - 1)>> \o MatchAllFrom(content, e)
             ELSE MatchAllFrom(content, p + 1)

MatchAll(content) == MatchAllFrom(content, 1)

----------------------------------------------------------------------------
\* The files the script reads: meta.json and the tree under src/.

rootDir == <<>>
metaPath == Join(rootDir, meta_json)
srcDir == Join(rootDir, src)
libDir == Join(srcDir, lib)
domDir == Join(libDir, dom_ts)
indexPath == Join(srcDir, index_ts)
appPath == Join(srcDir, app_tsx)
utilsPath == Join(libDir, utils_js)
typesPath == Join(domDir, types_d_ts)

Dirs == {srcDir, libDir, domDir}
Files == {indexPath, appPath, utilsPath, typesPath}

\* The entries of each directory, in name order.
Entries(dir) ==
    CASE dir = srcDir -> <<app_tsx, index_ts, lib>>
      [] dir = libDir -> <<dom_ts, utils_js>>
      [] dir = domDir -> <<types_d_ts>>

Reverse(s) == [i \in 1..Len(s) |-> s[Len(s) + 1 - i]]

\* A file system call that throws: statSync of a path ("stat"), or
\* readFileSync of a file and readdirSync of a directory ("read").
NoFault == [op |-> "none", path |-> <<>>]
Faults ==
    {NoFault}
    \cup {[op |-> "read", path |-> p] : p \in Dirs \cup Files}
    \cup {[op |-> "stat", path |-> p] : p \in (Dirs \cup Files) \ {srcDir}}

\* The entries of every directory in name order, as readdirSync lists them
\* on most systems.
NameOrder == [dir \in Dirs |-> Entries(dir)]

\* The orders a sequence can be put in.
Orders(s) ==
    {[i \in 1..Len(s) |-> s[perm[i]]] : perm \in Permutations(1..Len(s))}

\* Every order readdirSync can list the entries of the directories in.
Listings ==
    {listing \in [Dirs -> UNION {Orders(Entries(dir)) : dir \in Dirs}] :
        \A dir \in Dirs : listing[dir] \in Orders(Entries(dir))}

\* The source trees: the text of every file, the order in which readdirSync
\* lists a directory, and at most one path whose call fails.
SrcTrees ==
    [text : { [p \in Files |->
                 CASE p = indexPath -> a
                   [] p = utilsPath -> b
                   [] p = typesPath -> c
                   [] p = appPath -> TextNotes]
              : a \in {TextEmpty, TextSet, TextSetGet, TextTricky},
                b \in {TextEmpty, TextSet, TextTwice, TextTricky},
                c \in {TextEmpty, TextTwice} },
     reversed : BOOLEAN,
     order : {NameOrder},
     fault : Faults]

RECURSIVE SeqsUpTo(_, _)
SeqsUpTo(S, n) ==
    IF n = 0
    THEN {<<>>}
    ELSE LET shorter == SeqsUpTo(S, n - 1)
         IN  shorter \cup {Append(s, x) : s \in shorter, x \in S}

\* The manifests: meta.json absent, not JSON, or an object with or
\* without a "grant" array.
MetaFiles ==
    {[kind |-> "absent", hasGrant |-> FALSE, grant |-> <<>>],
     [kind |-> "malformed", hasGrant |-> FALSE, grant |-> <<>>],
     [kind |-> "json", hasGrant |-> FALSE, grant |-> <<>>]}
    \cup {[kind |-> "json", hasGrant |-> TRUE, grant |-> g] :
             g \in SeqsUpTo(GrantStrings, MaxGrants)}

----------------------------------------------------------------------------
VARIABLES
    metaFile,    \* meta.json on disk
    srcTree,     \* src/ on disk
    pc,          \* the statement the script is at
    grants,      \* const grants (line 17)
    gmApiCalls,  \* const gmApiCalls (line 21)
    stack,       \* the active scanDirectory calls: dir, files, loop index
    filePath,    \* the argument of the pending scanFile call
    missing,     \* const missing (line 48)
    unused,      \* const unused (line 56)
    hasIssues,   \* let hasIssues (line 64)
    console,     \* the lines written to the console, in order
    calls,       \* the fs calls made, in order
    error,       \* the exception that ended the run, if any
    exitCode,    \* the process exit code, -1 while the script runs
    previous     \* what the run before this one found, if there was one

grantVars == <<metaFile, srcTree, pc, grants, gmApiCalls, stack, filePath,
               missing, unused, hasIssues, console, calls, error, exitCode,
               previous>>

\* scripts/check-version-sync.js
VARIABLES
    packageFile,     \* package.json on disk
    metaJsonFile,    \* meta.json on disk, as this script reads it
    syncPc,          \* the statement the script is at
    packageVersion,  \* const packageVersion (line 17)
    metaVersion,     \* const metaVersion (line 22)
    syncConsole,     \* the lines written to the console, in order
    syncExit         \* the process exit code, -1 while the script runs

syncVars == <<packageFile, metaJsonFile, syncPc, packageVersion, metaVersion,
              syncConsole, syncExit>>

\* The userscript: src/index.ts and src/utils.ts in a page
VARIABLES
    entry,       \* the entry module: "waits" (src/index.ts, which looks at
                 \* document.readyState) or "direct" (it calls main at once)
    readyState,  \* document.readyState
    listeners,   \* the DOMContentLoaded listeners of the document
    imported,    \* the entry module has been evaluated
    mainCalls,   \* how many times main has been called
    logCalls,    \* the arguments of the calls of log, in order
    consoleLog   \* the arguments of the calls of console.log, in order

scriptVars == <<entry, readyState, listeners, imported, mainCalls, logCalls,
                consoleLog>>

\* rollup.config.js
VARIABLES
    configFile,  \* the configuration: "static" (sourcemap: false) or "env"
                 \* (it reads process.env.BUILD)
    env,         \* process.env: BUILD and NODE_ENV
    sourcemap    \* output.sourcemap of the exported configuration

buildVars == <<configFile, env, sourcemap>>

\* The variables of the programs other than scripts/check-grants.js.
otherVars == <<syncVars, scriptVars, buildVars>>

vars == <<grantVars, otherVars>>

NoError == [name |-> "none", syscall |-> "none", path |-> <<>>]

NoOutcome == [ran |-> FALSE, exitCode |-> -1, missing |-> {}, unused |-> {}]

\* The state of a process that starts scripts/check-grants.js.
Start ==
    /\ pc = "meta"
    /\ grants = <<>>
    /\ gmApiCalls = <<>>
    /\ stack = <<>>
    /\ filePath = <<>>
    /\ missing = <<>>
    /\ unused = <<>>
    /\ hasIssues = FALSE
    /\ console = <<>>
    /\ calls = <<>>
    /\ error = NoError
    /\ exitCode = -1

InitGrants ==
    /\ metaFile \in MetaFiles
    /\ srcTree \in SrcTrees
    /\ Start
    /\ previous = NoOutcome

\* A JSON value, as its type and its text; Undefined is the value of a
\* property the object does not have.
Undefined == [type |-> "undefined", val |-> <<>>]
String(s) == [type |-> "string", val |-> s]
Number(s) == [type |-> "number", val |-> s]

\* The values of "version" the model enumerates: absent, "1.0.0", "1.0.1",
\* "1" and the number 1.
Versions ==
    {Undefined, String(<<"1", ".", "0", ".", "0">>), String(<<"1", ".", "0", ".", "1">>), String(<<"1">>),
     Number(<<"1">>)}

\* package.json and meta.json: absent, not JSON, or an object.
VersionFiles ==
    {[kind |-> "absent", version |-> Undefined],
     [kind |-> "malformed", version |-> Undefined]}
    \cup {[kind |-> "json", version |-> v] : v \in Versions}

\* scripts/check-version-sync.js is not running.
SyncIdle ==
    /\ packageFile = [kind |-> "absent", version |-> Undefined]
    /\ metaJsonFile = [kind |-> "absent", version |-> Undefined]
    /\ syncPc = "idle"
    /\ packageVersion = Undefined
    /\ metaVersion = Undefined
    /\ syncConsole = <<>>
    /\ syncExit = -1

\* No page runs the userscript.
ScriptIdle ==
    /\ entry = "direct"
    /\ readyState = "complete"
    /\ listeners = <<>>
    /\ imported = FALSE
    /\ mainCalls = 0
    /\ logCalls = <<>>
    /\ consoleLog = <<>>

\* An environment variable: unset, or set to a string.
Unset == [set |-> FALSE, val |-> <<>>]
Set(s) == [set |-> TRUE, val |-> s]

development == <<"d", "e", "v", "e", "l", "o", "p", "m", "e", "n", "t">>
production == <<"p", "r", "o", "d", "u", "c", "t", "i", "o", "n">>

\* rollup is not running.
BuildIdle ==
    /\ configFile = "static"
    /\ env = [BUILD |-> Unset, NODE_ENV |-> Unset]
    /\ sourcemap = "none"

\* scripts/check-grants.js is not running.
GrantsIdle ==
    /\ metaFile = [kind |-> "absent", hasGrant |-> FALSE, grant |-> <<>>]
    /\ srcTree \in {s \in SrcTrees :
                       /\ \A p \in Files \ {appPath} : s.text[p] = TextEmpty
                       /\ ~s.reversed
                       /\ s.fault = NoFault}
    /\ pc = "idle"
    /\ grants = <<>>
    /\ gmApiCalls = <<>>
    /\ stack = <<>>
    /\ filePath = <<>>
    /\ missing = <<>>
    /\ unused = <<>>
    /\ hasIssues = FALSE
    /\ console = <<>>
    /\ calls = <<>>
    /\ error = NoError
    /\ exitCode = -1
    /\ previous = NoOutcome

Init ==
    /\ InitGrants
    /\ SyncIdle
    /\ ScriptIdle
    /\ BuildIdle

----------------------------------------------------------------------------
\* The environment's answers to the script's calls.

\* fs.readdirSync(dir)
ListDir(dir) ==
    IF srcTree.reversed
    THEN Reverse(srcTree.order[dir])
    ELSE srcTree.order[dir]

Fails(op, path) == srcTree.fault = [op |-> op, path |-> path]

\* meta.grant || []
GrantOrEmpty(meta) == IF meta.hasGrant THEN meta.grant ELSE <<>>

FsCall(fn, path) == [fn |-> fn, path |-> path]

\* One console call: the function called, what the line is, and the
\* identifier or the file path its text holds (<<>>: none).
Line(fn, kind, api, path) ==
    [fn |-> fn, kind |-> kind, api |-> api, path |-> path]

\* An exception nobody catches: Node writes it to stderr and the process
\* ends with code 1.  The text of an fs error holds the path of the call; the
\* text of JSON.parse's SyntaxError holds a piece of the input only.
Throw(err) ==
    /\ error' = err
    /\ console' = Append(console, Line("uncaught", err.name, <<>>, err.path))
    /\ exitCode' = 1
    /\ pc' = "done"

FsError(syscall, path) ==
    [name |-> "Error", syscall |-> syscall, path |-> path]

JsonError == [name |-> "SyntaxError", syscall |-> "none", path |-> <<>>]

----------------------------------------------------------------------------
\* The statements of the script.

Frame(dir) == [dir |-> dir, files |-> <<>>, i |-> 1]

\* Mutant of ReadMeta: a manifest that does not exist counts as {}.
ReadMetaIfExists ==
    /\ pc = "meta"
    /\ calls' = Append(calls, FsCall("readFileSync", metaPath))
    /\ CASE metaFile.kind = "malformed" ->
              /\ Throw(JsonError)
              /\ UNCHANGED <<grants, stack>>
         [] metaFile.kind \in {"absent", "json"} ->
              /\ grants' = NewSet(GrantOrEmpty(metaFile))
              /\ stack' = <<Frame(srcDir)>>
              /\ pc' = "readdir"
              /\ UNCHANGED <<error, console, exitCode>>
    /\ UNCHANGED <<metaFile, srcTree, gmApiCalls, filePath, missing, unused,
                   hasIssues>>

\* Mutant of ReadMeta: a manifest that is not JSON counts as {}.
ReadMetaTolerant ==
    /\ pc = "meta"
    /\ calls' = Append(calls, FsCall("readFileSync", metaPath))
    /\ CASE metaFile.kind = "absent" ->
              /\ Throw(FsError("open", metaPath))
              /\ UNCHANGED <<grants, stack>>
         [] metaFile.kind \in {"malformed", "json"} ->
              /\ grants' = NewSet(GrantOrEmpty(metaFile))
              /\ stack' = <<Frame(srcDir)>>
              /\ pc' = "readdir"
              /\ UNCHANGED <<error, console, exitCode>>
    /\ UNCHANGED <<metaFile, srcTree, gmApiCalls, filePath, missing, unused,
                   hasIssues>>

\* Mutant of ReadMeta: a manifest without "grant" raises a TypeError.
ReadMetaRequiresGrant ==
    /\ pc = "meta"
    /\ calls' = Append(calls, FsCall("readFileSync", metaPath))
    /\ CASE metaFile.kind = "absent" ->
              /\ Throw(FsError("open", metaPath))
              /\ UNCHANGED <<grants, stack>>
         [] metaFile.kind = "malformed" ->
              /\ Throw(JsonError)
              /\ UNCHANGED <<grants, stack>>
         [] metaFile.kind = "json" /\ ~metaFile.hasGrant ->
              /\ Throw([name |-> "TypeError", syscall |-> "none",
                        path |-> <<>>])
              /\ UNCHANGED <<grants, stack>>
         [] metaFile.kind = "json" /\ metaFile.hasGrant ->
              /\ grants' = NewSet(metaFile.grant)
              /\ stack' = <<Frame(srcDir)>>
              /\ pc' = "readdir"
              /\ UNCHANGED <<error, console, exitCode>>
    /\ UNCHANGED <<metaFile, srcTree, gmApiCalls, filePath, missing, unused,
                   hasIssues>>

\* Lines 14-21 and the call of line 45.
ReadMeta ==
    /\ pc = "meta"
    /\ calls' = Append(calls, FsCall("readFileSync", metaPath))
    /\ CASE metaFile.kind = "absent" ->
              /\ Throw(FsError("open", metaPath))
              /\ UNCHANGED <<grants, stack>>
         [] metaFile.kind = "malformed" ->
              /\ Throw(JsonError)
              /\ UNCHANGED <<grants, stack>>
         [] metaFile.kind = "json" ->
              /\ grants' = NewSet(GrantOrEmpty(metaFile))
              /\ stack' = <<Frame(srcDir)>>
              /\ pc' = "readdir"
              /\ UNCHANGED <<error, console, exitCode>>
    /\ UNCHANGED <<metaFile, srcTree, gmApiCalls, filePath, missing, unused,
                   hasIssues>>

Top == stack[Len(stack)]

SetTop(frame) == [stack EXCEPT ![Len(stack)] = frame]
\* Mutant of ReadDir: the listing holds every entry twice.
ReadDirListsTwice ==
    /\ pc = "readdir"
    /\ calls' = Append(calls, FsCall("readdirSync", Top.dir))
    /\ IF Fails("read", Top.dir)
       THEN /\ Throw(FsError("scandir", Top.dir))
            /\ UNCHANGED stack
       ELSE /\ stack' = SetTop([Top EXCEPT
                                  !.files = ListDir(Top.dir) \o ListDir(Top.dir)])
            /\ pc' = "loop"
            /\ UNCHANGED <<error, console, exitCode>>
    /\ UNCHANGED <<metaFile, srcTree, grants, gmApiCalls, filePath, missing,
                   unused, hasIssues>>

\* Line 33: const files = fs.readdirSync(dir).
ReadDir ==
    /\ pc = "readdir"
    /\ calls' = Append(calls, FsCall("readdirSync", Top.dir))
    /\ IF Fails("read", Top.dir)
       THEN /\ Throw(FsError("scandir", Top.dir))
            /\ UNCHANGED stack
       ELSE /\ stack' = SetTop([Top EXCEPT !.files = ListDir(Top.dir)])
            /\ pc' = "loop"
            /\ UNCHANGED <<error, console, exitCode>>
    /\ UNCHANGED <<metaFile, srcTree, grants, gmApiCalls, filePath, missing,
                   unused, hasIssues>>

\* Mutant of IsSourceFile: '.ts' or '.js' anywhere in the name.
IsSourceFileLoose(file) ==
    \E k \in 1..(Len(file) - 2) :
        SubSeq(file, k, k + 2) \in {<<".", "t", "s">>, <<".", "j", "s">>}

\* Line 39: file.endsWith('.ts') || file.endsWith('.js').
IsSourceFile(file) ==
    \/ EndsWith(file, <<".", "t", "s">>)
    \/ EndsWith(file, <<".", "j", "s">>)

\* Lines 34-41: one iteration of the loop, up to the call it makes.
Visit ==
    /\ pc = "loop"
    /\ Top.i <= Len(Top.files)
    /\ LET file == Top.files[Top.i]
           path == Join(Top.dir, file)
           next == SetTop([Top EXCEPT !.i = Top.i + 1])
       IN  /\ calls' = Append(calls, FsCall("statSync", path))
           /\ IF Fails("stat", path)
              THEN /\ Throw(FsError("stat", path))
                   /\ UNCHANGED <<stack, filePath>>
              ELSE /\ UNCHANGED <<error, console, exitCode>>
                   /\ IF path \in Dirs
                      THEN /\ stack' = Append(next, Frame(path))
                           /\ pc' = "readdir"
                           /\ UNCHANGED filePath
                      ELSE IF IsSourceFile(file)
                      THEN /\ stack' = next
                           /\ filePath' = path
                           /\ pc' = "scanFile"
                      ELSE /\ stack' = next
                           /\ pc' = "loop"
                           /\ UNCHANGED filePath
    /\ UNCHANGED <<metaFile, srcTree, grants, gmApiCalls, missing, unused,
                   hasIssues>>
\* Mutant of scanFile: an identifier that is not granted is printed as soon
\* as its file has been read.
scanFileReportsAtOnce ==
    /\ pc = "scanFile"
    /\ calls' = Append(calls, FsCall("readFileSync", filePath))
    /\ IF Fails("read", filePath)
       THEN /\ Throw(FsError("open", filePath))
            /\ UNCHANGED gmApiCalls
       ELSE /\ gmApiCalls' = AddAll(gmApiCalls, MatchAll(srcTree.text[filePath]))
            /\ console' = console \o
                  LET found == SelectSeq(MatchAll(srcTree.text[filePath]),
                                         LAMBDA api : ~Has(grants, api))
                  IN  [k \in 1..Len(found) |->
                          Line("error", "missingItem", found[k], <<>>)]
            /\ pc' = "loop"
            /\ UNCHANGED <<error, exitCode>>
    /\ UNCHANGED <<metaFile, srcTree, grants, stack, filePath, missing, unused,
                   hasIssues>>

\* Mutant of scanFile: a file that cannot be read is skipped.
scanFileIfReadable ==
    /\ pc = "scanFile"
    /\ calls' = Append(calls, FsCall("readFileSync", filePath))
    /\ gmApiCalls' =
          IF Fails("read", filePath)
          THEN gmApiCalls
          ELSE AddAll(gmApiCalls, MatchAll(srcTree.text[filePath]))
    /\ pc' = "loop"
    /\ UNCHANGED <<metaFile, srcTree, grants, stack, filePath, missing, unused,
                   hasIssues, console, error, exitCode>>

\* Mutant of scanFile: the matches of a file replace the collection.
scanFileKeepLast ==
    /\ pc = "scanFile"
    /\ calls' = Append(calls, FsCall("readFileSync", filePath))
    /\ IF Fails("read", filePath)
       THEN /\ Throw(FsError("open", filePath))
            /\ UNCHANGED gmApiCalls
       ELSE /\ gmApiCalls' = NewSet(MatchAll(srcTree.text[filePath]))
            /\ pc' = "loop"
            /\ UNCHANGED <<error, console, exitCode>>
    /\ UNCHANGED <<metaFile, srcTree, grants, stack, filePath, missing, unused,
                   hasIssues>>

\* Lines 23-30.
scanFile ==
    /\ pc = "scanFile"
    /\ calls' = Append(calls, FsCall("readFileSync", filePath))
    /\ IF Fails("read", filePath)
       THEN /\ Throw(FsError("open", filePath))
            /\ UNCHANGED gmApiCalls
       ELSE /\ gmApiCalls' = AddAll(gmApiCalls, MatchAll(srcTree.text[filePath]))
            /\ pc' = "loop"
            /\ UNCHANGED <<error, console, exitCode>>
    /\ UNCHANGED <<metaFile, srcTree, grants, stack, filePath, missing, unused,
                   hasIssues>>

\* Lines 42-43: the loop is over and scanDirectory returns, to its caller's
\* loop or, from the call of line 45, to line 47.
Return ==
    /\ pc = "loop"
    /\ Top.i > Len(Top.files)
    /\ stack' = SubSeq(stack, 1, Len(stack) - 1)
    /\ pc' = IF Len(stack) = 1 THEN "missing" ELSE "loop"
    /\ UNCHANGED <<metaFile, srcTree, grants, gmApiCalls, filePath, missing,
                   unused, hasIssues, console, calls, error, exitCode>>

\* Mutant of IsMissing: a grant covers every identifier it is a prefix of.
IsMissingByPrefix(api, granted) ==
    ~\E k \in 1..Len(granted) : StartsWith(api, granted[k])

\* Line 50: !grants.has(api).
IsMissing(api, granted) == ~Has(granted, api)

\* Lines 47-53.
CheckMissing ==
    /\ pc = "missing"
    /\ missing' = SelectSeq(gmApiCalls, LAMBDA api : IsMissing(api, grants))
    /\ pc' = "unused"
    /\ UNCHANGED <<metaFile, srcTree, grants, gmApiCalls, stack, filePath,
                   unused, hasIssues, console, calls, error, exitCode>>

\* Mutant of IsUnused: the GM_ prefix is not asked for.
IsUnusedAnyGrant(grant, found) ==
    /\ grant # none
    /\ ~Has(found, grant)

\* Mutant of IsUnused: the occurrences are not looked at.
IsUnusedIgnoringUse(grant, found) ==
    /\ grant # none
    /\ StartsWith(grant, <<"G", "M", "_">>)

\* Mutant of IsUnused: every grant that was not found, the sentinel too.
IsUnusedNotFound(grant, found) == ~Has(found, grant)

\* Line 58.
IsUnused(grant, found) ==
    /\ grant # none
    /\ StartsWith(grant, <<"G", "M", "_">>)
    /\ ~Has(found, grant)

\* Lines 55-61.
CheckUnused ==
    /\ pc = "unused"
    /\ unused' = SelectSeq(grants, LAMBDA grant : IsUnused(grant, gmApiCalls))
    /\ pc' = "reportMissing"
    /\ UNCHANGED <<metaFile, srcTree, grants, gmApiCalls, stack, filePath,
                   missing, hasIssues, console, calls, error, exitCode>>

\* Mutant of Items: only the first element is printed.
ItemsFirst(fn, kind, apis) ==
    [k \in 1..(IF Len(apis) > 0 THEN 1 ELSE 0) |->
        Line(fn, kind, apis[k], <<>>)]

\* array.forEach((api) => console.fn(`   - ${api}`))
Items(fn, kind, apis) ==
    [k \in 1..Len(apis) |-> Line(fn, kind, apis[k], <<>>)]

\* Mutant of ReportMissing: the missing grants are written to meta.json.
ReportMissingAndFix ==
    /\ pc = "reportMissing"
    /\ IF Len(missing) > 0
       THEN /\ console' = console
                   \o <<Line("error", "missingHeader", <<>>, <<>>)>>
                   \o Items("error", "missingItem", missing)
                   \o <<Line("error", "missingGuidance", <<>>, <<>>)>>
            /\ hasIssues' = TRUE
            /\ metaFile' = [metaFile EXCEPT !.hasGrant = TRUE,
                                            !.grant = grants \o missing]
       ELSE UNCHANGED <<console, hasIssues, metaFile>>
    /\ pc' = "reportUnused"
    /\ UNCHANGED <<srcTree, grants, gmApiCalls, stack, filePath,
                   missing, unused, calls, error, exitCode>>

\* Lines 64-71.
ReportMissing ==
    /\ pc = "reportMissing"
    /\ IF Len(missing) > 0
       THEN /\ console' = console
                   \o <<Line("error", "missingHeader", <<>>, <<>>)>>
                   \o Items("error", "missingItem", missing)
                   \o <<Line("error", "missingGuidance", <<>>, <<>>)>>
            /\ hasIssues' = TRUE
       ELSE UNCHANGED <<console, hasIssues>>
    /\ pc' = "reportUnused"
    /\ UNCHANGED <<metaFile, srcTree, grants, gmApiCalls, stack, filePath,
                   missing, unused, calls, error, exitCode>>

\* Mutant of ReportUnused: an unused grant counts as an issue.
ReportUnusedAsIssue ==
    /\ pc = "reportUnused"
    /\ IF Len(unused) > 0
       THEN /\ console' = console
                   \o <<Line("warn", "unusedHeader", <<>>, <<>>)>>
                   \o Items("warn", "unusedItem", unused)
                   \o <<Line("warn", "unusedGuidance", <<>>, <<>>)>>
            /\ hasIssues' = TRUE
       ELSE UNCHANGED <<console, hasIssues>>
    /\ pc' = "reportSuccess"
    /\ UNCHANGED <<metaFile, srcTree, grants, gmApiCalls, stack, filePath,
                   missing, unused, calls, error, exitCode>>

\* Lines 73-77.
ReportUnused ==
    /\ pc = "reportUnused"
    /\ IF Len(unused) > 0
       THEN console' = console
                   \o <<Line("warn", "unusedHeader", <<>>, <<>>)>>
                   \o Items("warn", "unusedItem", unused)
                   \o <<Line("warn", "unusedGuidance", <<>>, <<>>)>>
       ELSE UNCHANGED console
    /\ pc' = "reportSuccess"
    /\ UNCHANGED <<metaFile, srcTree, grants, gmApiCalls, stack, filePath,
                   missing, unused, hasIssues, calls, error, exitCode>>

\* Mutant of ReportSuccess: the unused grants are not looked at.
ReportSuccessUnlessMissing ==
    /\ pc = "reportSuccess"
    /\ IF ~hasIssues
       THEN console' = Append(console, Line("log", "success", <<>>, <<>>))
       ELSE UNCHANGED console
    /\ pc' = "exit"
    /\ UNCHANGED <<metaFile, srcTree, grants, gmApiCalls, stack, filePath,
                   missing, unused, hasIssues, calls, error, exitCode>>

\* Lines 79-81.
ReportSuccess ==
    /\ pc = "reportSuccess"
    /\ IF ~hasIssues /\ Len(unused) = 0
       THEN console' = Append(console, Line("log", "success", <<>>, <<>>))
       ELSE UNCHANGED console
    /\ pc' = "exit"
    /\ UNCHANGED <<metaFile, srcTree, grants, gmApiCalls, stack, filePath,
                   missing, unused, hasIssues, calls, error, exitCode>>

\* Line 83: hasIssues ? 1 : 0.
ExitStatus(issues) == IF issues THEN 1 ELSE 0

\* Line 83: process.exit.
Exit ==
    /\ pc = "exit"
    /\ exitCode' = ExitStatus(hasIssues)
    /\ pc' = "done"
    /\ UNCHANGED <<metaFile, srcTree, grants, gmApiCalls, stack, filePath,
                   missing, unused, hasIssues, console, calls, error>>

\* What a statement of scripts/check-grants.js leaves alone.
Rest == UNCHANGED <<previous, otherVars>>

Next ==
    \/ ReadMeta /\ Rest
    \/ ReadDir /\ Rest
    \/ Visit /\ Rest
    \/ scanFile /\ Rest
    \/ Return /\ Rest
    \/ CheckMissing /\ Rest
    \/ CheckUnused /\ Rest
    \/ ReportMissing /\ Rest
    \/ ReportUnused /\ Rest
    \/ ReportSuccess /\ Rest
    \/ Exit /\ Rest

Spec == Init /\ [][Next]_vars

----------------------------------------------------------------------------
\* The script run a second time on the same meta.json and src/.
\* The runs whose results are compared over the listing orders: a manifest
\* that parses and holds at most one grant, any texts, no fault, and the
\* entries of each directory in any order.
InitOrder ==
    /\ metaFile \in {m \in MetaFiles : m.kind = "json" /\ Len(m.grant) <= 1}
    /\ srcTree \in {[tree EXCEPT !.order = listing] :
                       tree \in {t \in SrcTrees :
                                    ~t.reversed /\ t.fault = NoFault},
                       listing \in Listings}
    /\ Start
    /\ previous = NoOutcome
    /\ SyncIdle
    /\ ScriptIdle
    /\ BuildIdle

SpecOrder == InitOrder /\ [][Next]_vars

\* src/utils.ts lines 32-37 and the like: GM_addStyle in a commented-out
\* call ("// GM_addStyle(css);"), in a string literal ("s = 'GM_addStyle';")
\* and in a call ("GM_addStyle(css);").
GM_addStyle == <<"G", "M", "_", "a", "d", "d", "S", "t", "y", "l", "e">>
TextCommented == <<"/", "/", " ">> \o GM_addStyle \o <<"(", "c", "s", "s", ")", ";">>
TextQuoted == <<"s", " ", "=", " ", "'">> \o GM_addStyle \o <<"'", ";">>
TextCall == GM_addStyle \o <<"(", "c", "s", "s", ")", ";">>

\* The runs on sources that name GM_addStyle outside a call: src/lib/utils.js
\* holds one of the texts above or nothing, and the manifest grants
\* GM_addStyle or nothing.
InitComments ==
    /\ metaFile \in {[kind |-> "json", hasGrant |-> TRUE, grant |-> g] :
                        g \in {<<>>, <<GM_addStyle>>}}
    /\ srcTree \in {[tree EXCEPT !.text[utilsPath] = text] :
                       tree \in {t \in SrcTrees :
                                    /\ t.text[utilsPath] = TextEmpty
                                    /\ t.text[typesPath] = TextEmpty
                                    /\ t.fault = NoFault},
                       text \in {TextEmpty, TextCommented, TextQuoted,
                                 TextCall}}
    /\ Start
    /\ previous = NoOutcome
    /\ SyncIdle
    /\ ScriptIdle
    /\ BuildIdle

SpecComments == InitComments /\ [][Next]_vars

\* The runs whose end is looked for: no manifest, a malformed one, one
\* without "grant" and one that grants GM_notification; GM_setValue in
\* src/index.ts or nowhere; any listing order and any fault.
InitRun ==
    /\ Init
    /\ metaFile.hasGrant => metaFile.grant = <<GM_notification>>
    /\ srcTree.text[indexPath] \in {TextEmpty, TextSet}
    /\ srcTree.text[utilsPath] = TextEmpty
    /\ srcTree.text[typesPath] = TextEmpty

\* A process that is never suspended: Node runs the script's statements one
\* after the other until the process ends.
SpecRun == InitRun /\ [][Next]_vars /\ WF_vars(Next)

\* What a run leaves behind: the exit code and the two findings, as sets.
Outcome ==
    [ran |-> TRUE, exitCode |-> exitCode,
     missing |-> Range(missing), unused |-> Range(unused)]

\* A new process runs the script after the first has ended.  Nothing of the
\* first process is left; the files are the same, and fs.readdirSync may
\* list a directory in another order.
Rerun ==
    /\ pc = "done"
    /\ ~previous.ran
    /\ previous' = Outcome
    /\ pc' = "meta"
    /\ grants' = <<>>
    /\ gmApiCalls' = <<>>
    /\ stack' = <<>>
    /\ filePath' = <<>>
    /\ missing' = <<>>
    /\ unused' = <<>>
    /\ hasIssues' = FALSE
    /\ console' = <<>>
    /\ calls' = <<>>
    /\ error' = NoError
    /\ exitCode' = -1
    /\ \E r \in BOOLEAN : srcTree' = [srcTree EXCEPT !.reversed = r]
    /\ UNCHANGED metaFile

\* The faults of the source trees that are run twice.
TwiceFaults ==
    {NoFault,
     [op |-> "read", path |-> srcDir],
     [op |-> "stat", path |-> libDir],
     [op |-> "read", path |-> utilsPath]}

InitTwice ==
    /\ Init
    /\ srcTree.fault \in TwiceFaults

NextTwice ==
    \/ Next
    \/ Rerun /\ UNCHANGED otherVars

SpecTwice == InitTwice /\ [][NextTwice]_vars

----------------------------------------------------------------------------
\* scripts/check-version-sync.js

\* One console call of the script: the function, what the line is, and the
\* version its text holds (Undefined prints as "undefined").
SyncLine(fn, kind, version) == [fn |-> fn, kind |-> kind, version |-> version]

\* An exception nobody catches ends the process with code 1.
SyncThrow(name) ==
    /\ syncConsole' = Append(syncConsole, SyncLine("uncaught", name, Undefined))
    /\ syncExit' = 1
    /\ syncPc' = "done"

\* JSON.parse(fs.readFileSync(path, 'utf8')).version
ReadVersion(file, version, next) ==
    CASE file.kind = "absent" ->
             SyncThrow("Error") /\ version' = Undefined
      [] file.kind = "malformed" ->
             SyncThrow("SyntaxError") /\ version' = Undefined
      [] file.kind = "json" ->
             /\ version' = file.version
             /\ syncPc' = next
             /\ UNCHANGED <<syncConsole, syncExit>>

\* Lines 14-17.
ReadPackageJson ==
    /\ syncPc = "package"
    /\ ReadVersion(packageFile, packageVersion, "meta")
    /\ UNCHANGED <<packageFile, metaJsonFile, metaVersion>>

\* Lines 19-22.
ReadMetaJson ==
    /\ syncPc = "meta"
    /\ ReadVersion(metaJsonFile, metaVersion, "compare")
    /\ UNCHANGED <<packageFile, metaJsonFile, packageVersion>>
\* Mutant of StrictlyEqual: a version that is not there equals nothing.
EqualAndDefined(a, b) ==
    /\ a.type # "undefined"
    /\ a.type = b.type
    /\ a.val = b.val

\* Mutant of StrictlyEqual: ==, which converts a number and a string to one
\* type before it compares.
LooselyEqual(a, b) ==
    /\ a.val = b.val
    /\ \/ a.type = b.type
       \/ {a.type, b.type} = {"string", "number"}

\* ===: the same type and the same value.
StrictlyEqual(a, b) == a.type = b.type /\ a.val = b.val

\* Lines 24-31.
CompareVersions ==
    /\ syncPc = "compare"
    /\ IF ~StrictlyEqual(packageVersion, metaVersion)
       THEN /\ syncConsole' = syncConsole \o
                 <<SyncLine("error", "mismatch", Undefined),
                   SyncLine("error", "package.json", packageVersion),
                   SyncLine("error", "meta.json", metaVersion),
                   SyncLine("error", "guidance", Undefined)>>
            /\ syncExit' = 1
            /\ syncPc' = "done"
       ELSE /\ syncPc' = "sync"
            /\ UNCHANGED <<syncConsole, syncExit>>
    /\ UNCHANGED <<packageFile, metaJsonFile, packageVersion, metaVersion>>

\* Line 33.
ReportInSync ==
    /\ syncPc = "sync"
    /\ syncConsole' = Append(syncConsole, SyncLine("log", "inSync", packageVersion))
    /\ syncPc' = "exit"
    /\ UNCHANGED <<packageFile, metaJsonFile, packageVersion, metaVersion,
                   syncExit>>

\* Line 34.
ExitInSync ==
    /\ syncPc = "exit"
    /\ syncExit' = 0
    /\ syncPc' = "done"
    /\ UNCHANGED <<packageFile, metaJsonFile, packageVersion, metaVersion,
                   syncConsole>>

InitSync ==
    /\ packageFile \in VersionFiles
    /\ metaJsonFile \in VersionFiles
    /\ syncPc = "package"
    /\ packageVersion = Undefined
    /\ metaVersion = Undefined
    /\ syncConsole = <<>>
    /\ syncExit = -1
    /\ GrantsIdle
    /\ ScriptIdle
    /\ BuildIdle

NextSync ==
    \/ ReadPackageJson /\ UNCHANGED <<grantVars, scriptVars, buildVars>>
    \/ ReadMetaJson /\ UNCHANGED <<grantVars, scriptVars, buildVars>>
    \/ CompareVersions /\ UNCHANGED <<grantVars, scriptVars, buildVars>>
    \/ ReportInSync /\ UNCHANGED <<grantVars, scriptVars, buildVars>>
    \/ ExitInSync /\ UNCHANGED <<grantVars, scriptVars, buildVars>>

SpecSync == InitSync /\ [][NextSync]_vars

----------------------------------------------------------------------------
\* The userscript: src/utils.ts and the entry module.

\* '[UserScript] '
UserScriptPrefix ==
    <<"[", "U", "s", "e", "r", "S", "c", "r", "i", "p", "t", "]", " ">>

\* 'Hello from TypeScript Userscript!'
Hello ==
    <<"H", "e", "l", "l", "o", " ", "f", "r", "o", "m", " ", "T", "y", "p",
      "e", "S", "c", "r", "i", "p", "t", " ", "U", "s", "e", "r", "s", "c",
      "r", "i", "p", "t", "!">>

\* The messages of the callers of log other than main: '', 'Test message',
\* 'First message', 'Second message'.
Messages ==
    { <<>>,
      <<"T", "e", "s", "t", " ", "m", "e", "s", "s", "a", "g", "e">>,
      <<"F", "i", "r", "s", "t", " ", "m", "e", "s", "s", "a", "g", "e">>,
      <<"S", "e", "c", "o", "n", "d", " ", "m", "e", "s", "s", "a", "g",
        "e">> }

\* Mutant of LogText: an empty message is printed as it is.
LogTextUnlessEmpty(message) ==
    IF message = <<>> THEN <<>> ELSE UserScriptPrefix \o message

\* src/utils.ts line 9: `[UserScript] ${message}`.
LogText(message) == UserScriptPrefix \o message

\* src/utils.ts lines 8-10: log(message).
Log(message) ==
    /\ logCalls' = Append(logCalls, message)
    /\ consoleLog' = Append(consoleLog, LogText(message))

\* src/index.ts lines 6-8: main().
Main ==
    /\ mainCalls' = mainCalls + 1
    /\ Log(Hello)

\* A caller other than main calls log, as the tests of utils.ts do.
CallLog ==
    /\ Len(logCalls) - mainCalls < MaxLogCalls
    /\ \E message \in Messages : Log(message)
    /\ UNCHANGED <<entry, readyState, listeners, imported, mainCalls>>
\* Mutant of ImportIndex: main is called at once and is a listener as well
\* while the document is loading.
ImportIndexCallsAndWaits ==
    /\ ~imported
    /\ entry = "waits"
    /\ imported' = TRUE
    /\ Main
    /\ listeners' = IF readyState = "loading"
                    THEN Append(listeners, "main")
                    ELSE listeners
    /\ UNCHANGED <<entry, readyState>>

\* Mutant of ImportIndex: main is always left to DOMContentLoaded.
ImportIndexAlwaysWaits ==
    /\ ~imported
    /\ entry = "waits"
    /\ imported' = TRUE
    /\ listeners' = Append(listeners, "main")
    /\ UNCHANGED <<mainCalls, logCalls, consoleLog>>
    /\ UNCHANGED <<entry, readyState>>

\* src/index.ts lines 10-15: the module is evaluated.
ImportIndex ==
    /\ ~imported
    /\ entry = "waits"
    /\ imported' = TRUE
    /\ IF readyState = "loading"
       THEN /\ listeners' = Append(listeners, "main")
            /\ UNCHANGED <<mainCalls, logCalls, consoleLog>>
       ELSE /\ Main
            /\ UNCHANGED listeners
    /\ UNCHANGED <<entry, readyState>>

\* The entry module that calls main() as its last statement.
ImportIndexDirect ==
    /\ ~imported
    /\ entry = "direct"
    /\ imported' = TRUE
    /\ Main
    /\ UNCHANGED <<entry, readyState, listeners>>

\* The document has been parsed: readyState becomes 'interactive' and the
\* DOMContentLoaded event is dispatched to its listeners.
DOMContentLoaded ==
    /\ readyState = "loading"
    /\ readyState' = "interactive"
    /\ IF listeners # <<>>
       THEN Main
       ELSE UNCHANGED <<mainCalls, logCalls, consoleLog>>
    /\ UNCHANGED <<entry, listeners, imported>>

\* The page and its resources have loaded.
WindowLoad ==
    /\ readyState = "interactive"
    /\ readyState' = "complete"
    /\ UNCHANGED <<entry, listeners, imported, mainCalls, logCalls,
                   consoleLog>>

InitScript ==
    /\ entry \in {"waits", "direct"}
    /\ readyState \in {"loading", "interactive", "complete"}
    /\ listeners = <<>>
    /\ imported = FALSE
    /\ mainCalls = 0
    /\ logCalls = <<>>
    /\ consoleLog = <<>>
    /\ GrantsIdle
    /\ SyncIdle
    /\ BuildIdle

NextScript ==
    \/ CallLog /\ UNCHANGED <<grantVars, syncVars, buildVars>>
    \/ ImportIndex /\ UNCHANGED <<grantVars, syncVars, buildVars>>
    \/ ImportIndexDirect /\ UNCHANGED <<grantVars, syncVars, buildVars>>
    \/ DOMContentLoaded /\ UNCHANGED <<grantVars, syncVars, buildVars>>
    \/ WindowLoad /\ UNCHANGED <<grantVars, syncVars, buildVars>>

SpecScript == InitScript /\ [][NextScript]_vars

----------------------------------------------------------------------------
\* rollup.config.js

\* The values of BUILD and of NODE_ENV the model enumerates.
BuildValues ==
    {Unset, Set(development), Set(production), Set(<<>>),
     Set(<<"D", "e", "v", "e", "l", "o", "p", "m", "e", "n", "t">>), Set(<<"d", "e", "v">>),
     Set(<<"d", "e", "v", "e", "l", "o", "p", "m", "e", "n", "t", " ">>), Set(<<"d", "e", "v", "e", "l", "o", "p", "m", "e", "n">>)}

NodeEnvValues == {Unset, Set(development), Set(production), Set(<<"t", "e", "s", "t">>)}

\* Mutant of isDevelopment: every build but a production build.
isDevelopmentUnlessProduction(e) == e.BUILD # Set(production)

\* Line 32: process.env.BUILD === 'development'.
isDevelopment(e) == e.BUILD.set /\ e.BUILD.val = development

\* Lines 28-54: the configuration is evaluated; line 40 sets sourcemap.
LoadConfig ==
    /\ configFile = "env"
    /\ sourcemap = "none"
    /\ sourcemap' = IF isDevelopment(env) THEN "inline" ELSE "false"
    /\ UNCHANGED <<configFile, env>>

\* Lines 1-26: the configuration with sourcemap: false (line 11).
LoadStaticConfig ==
    /\ configFile = "static"
    /\ sourcemap = "none"
    /\ sourcemap' = "false"
    /\ UNCHANGED <<configFile, env>>

InitBuild ==
    /\ configFile \in {"static", "env"}
    /\ env \in [BUILD : BuildValues, NODE_ENV : NodeEnvValues]
    /\ sourcemap = "none"
    /\ GrantsIdle
    /\ SyncIdle
    /\ ScriptIdle

NextBuild ==
    \/ LoadConfig /\ UNCHANGED <<grantVars, syncVars, scriptVars>>
    \/ LoadStaticConfig /\ UNCHANGED <<grantVars, syncVars, scriptVars>>

SpecBuild == InitBuild /\ [][NextBuild]_vars

----------------------------------------------------------------------------
\* What is on disk and what was printed, for the properties below.

\* The run ended with process.exit (line 83), not with an exception.
Completed == pc = "done" /\ error = NoError

\* The files under src/ whose name ends in .ts or .js.
SourceFiles == {indexPath, utilsPath, typesPath}

\* The GM_ identifiers in the text of the source files.
Occurrences == UNION {Range(MatchAll(srcTree.text[p])) : p \in SourceFiles}

\* The entries of the manifest's "grant" array.
Granted == Range(GrantOrEmpty(metaFile))

\* The positions of the console lines of one kind.
LinesOf(kind) == {k \in 1..Len(console) : console[k].kind = kind}

\* The identifiers printed in lines of one kind.
Printed(kind) == {console[k].api : k \in LinesOf(kind)}

\* How many lines of one kind print the identifier.
TimesPrinted(kind, api) ==
    Cardinality({k \in LinesOf(kind) : console[k].api = api})

ReportKinds ==
    {"missingHeader", "missingItem", "missingGuidance",
     "unusedHeader", "unusedItem", "unusedGuidance", "success"}

\* No line of the report has been printed.
NoReport == \A k \in 1..Len(console) : console[k].kind \notin ReportKinds

\* The call is the one the source tree's fault makes fail.
CallFails(c) ==
    \/ c.fn = "statSync" /\ Fails("stat", c.path)
    \/ c.fn \in {"readFileSync", "readdirSync"} /\ Fails("read", c.path)

----------------------------------------------------------------------------
\* C1: a run that completes exits with 1 exactly when some GM_ identifier of
\* the scanned sources is not in the manifest's grant array, and with 0
\* otherwise, whatever was found unused.
ExitCodeIffMissingGrant ==
    Completed =>
        /\ exitCode \in {0, 1}
        /\ exitCode = 1 <=> (\E api \in Occurrences : api \notin Granted)

\* A completed run that warned about an unused grant and exited with 0.
WitnessUnusedExitsZero ==
    /\ Completed
    /\ Printed("unusedItem") # {}
    /\ exitCode = 0

\* C2: the missing array holds exactly the occurrences that are not granted,
\* compared as whole strings; with grant ["GM_setValue"] and sources using
\* GM_setValue and GM_getValue: missing GM_getValue, nothing unused, exit 1.
MissingIsOccurrencesMinusGrants ==
    /\ pc \in {"unused", "reportMissing", "reportUnused", "reportSuccess",
               "exit"} \/ Completed
          => Range(missing) = Occurrences \ Granted
    /\ ( /\ Completed
         /\ metaFile.hasGrant
         /\ metaFile.grant = <<GM_setValue>>
         /\ Occurrences = {GM_setValue, GM_getValue} )
          => /\ missing = <<GM_getValue>>
             /\ unused = <<>>
             /\ exitCode = 1

\* GM_setValue is granted, the sources use GM_setValues, which is missing.
WitnessPrefixNotCovered ==
    /\ Completed
    /\ GM_setValue \in Granted
    /\ GM_setValues \in Occurrences
    /\ Has(missing, GM_setValues)

\* C3, as claimed: unused is grants minus occurrences, less the sentinel only.
UnusedIsGrantsMinusOccurrences ==
    pc \in {"reportMissing", "reportUnused", "reportSuccess", "exit"}
       \/ Completed
       => Range(unused) = (Granted \ Occurrences) \ {none}

\* C3, amended: unused is grants minus occurrences, less the sentinel and
\* less every grant that does not start with GM_.
UnusedIsGMGrantsMinusOccurrences ==
    pc \in {"reportMissing", "reportUnused", "reportSuccess", "exit"}
       \/ Completed
       => Range(unused) =
             {g \in Granted \ Occurrences :
                 g # none /\ StartsWith(g, <<"G", "M", "_">>)}

\* Grants unsafeWindow and GM_notification, neither in the sources: only
\* GM_notification is unused.
WitnessNonGMGrantNotUnused ==
    /\ Completed
    /\ Granted = {unsafeWindow, GM_notification}
    /\ unused = <<GM_notification>>

\* C4: a grant is printed as unused exactly when it is not 'none', starts
\* with GM_ and is not an occurrence; unsafeWindow never is; with grants
\* GM_setValue and GM_notification and sources using only GM_setValue:
\* unused GM_notification, nothing missing, exit 0.
UnusedReportedIff ==
    Completed =>
        /\ \A g \in Granted :
              g \in Printed("unusedItem") <=>
                 /\ g # none
                 /\ SubSeq(g, 1, 3) = <<"G", "M", "_">>
                 /\ g \notin Occurrences
        /\ Printed("unusedItem") \subseteq Granted
        /\ unsafeWindow \notin Printed("unusedItem")
        /\ ( /\ Granted = {GM_setValue, GM_notification}
             /\ Occurrences = {GM_setValue} )
              => /\ Printed("unusedItem") = {GM_notification}
                 /\ Printed("missingItem") = {}
                 /\ exitCode = 0

\* The second scenario of the specification has run.
WitnessScenarioUnusedNotification ==
    /\ Completed
    /\ metaFile.grant = <<GM_setValue, GM_notification>>
    /\ Occurrences = {GM_setValue}
    /\ Printed("unusedItem") = {GM_notification}

\* C5: in a completed run every identifier of the sources that is not granted
\* is printed in exactly one line of the missing report and the exit code is
\* 1, however often and in however many files it occurs.
MissingPrintedOnce ==
    Completed =>
        \A api \in Occurrences \ Granted :
            /\ exitCode = 1
            /\ TimesPrinted("missingItem", api) = 1

\* GM_getValue occurs twice in each of two files and is not granted.
WitnessRepeatedIdentifier ==
    /\ Completed
    /\ srcTree.text[utilsPath] = TextTwice
    /\ srcTree.text[typesPath] = TextTwice
    /\ TimesPrinted("missingItem", GM_getValue) = 1

\* C6: the error lines cover the whole missing set, and the failure shows
\* only in the exit code, which is set after the report.
FullReportThenExitCode ==
    /\ pc \in {"reportUnused", "reportSuccess", "exit"} \/ Completed
          => Printed("missingItem") = Occurrences \ Granted
    /\ pc # "done" => exitCode = -1
    /\ Completed /\ Occurrences \ Granted # {} => exitCode = 1
    /\ Printed("missingItem") # {} => error = NoError

\* A completed run that reported two missing identifiers.
WitnessTwoMissing ==
    /\ Completed
    /\ Cardinality(Printed("missingItem")) >= 2
    /\ exitCode = 1

\* C7: without meta.json the process ends with a non-zero code, no file of
\* src/ is touched and no line of the report is printed.
AbsentManifestAborts ==
    metaFile.kind = "absent" =>
        /\ pc \in {"meta", "done"}
        /\ pc = "done" => exitCode # 0 /\ exitCode # -1
        /\ \A k \in 1..Len(calls) : calls[k].path = metaPath
        /\ gmApiCalls = <<>>
        /\ NoReport

\* The run without meta.json is over.
WitnessAbsentManifest ==
    /\ metaFile.kind = "absent"
    /\ pc = "done"
    /\ error.syscall = "open"

\* C8, as claimed: missing or malformed, the run fails with a non-zero code
\* and the diagnostic names the manifest file.
ManifestDiagnosticNamesFile ==
    (metaFile.kind \in {"absent", "malformed"} /\ pc = "done") =>
        /\ exitCode # 0
        /\ \E k \in 1..Len(console) : console[k].path = metaPath

\* C8, amended: missing or malformed, the run fails with a non-zero code; the
\* diagnostic names the manifest file when it is missing, and is the
\* SyntaxError of JSON.parse, which names no file, when it is malformed.
ManifestDiagnostic ==
    (metaFile.kind \in {"absent", "malformed"} /\ pc = "done") =>
        /\ exitCode = 1
        /\ Len(console) = 1
        /\ metaFile.kind = "absent" =>
              console[1] = Line("uncaught", "Error", <<>>, metaPath)
        /\ metaFile.kind = "malformed" =>
              console[1] = Line("uncaught", "SyntaxError", <<>>, <<>>)

\* The run on a malformed meta.json is over.
WitnessMalformedManifest ==
    /\ metaFile.kind = "malformed"
    /\ pc = "done"
    /\ error.name = "SyntaxError"

\* C9: the first call on src/ that fails is the last call of the run: the
\* process ends there with a non-zero code and no report, whatever was
\* collected before.
WalkErrorAborts ==
    \A k \in 1..Len(calls) :
        CallFails(calls[k]) =>
            /\ k = Len(calls)
            /\ pc = "done"
            /\ error = FsError(error.syscall, calls[k].path)
            /\ exitCode = 1
            /\ NoReport
            /\ missing = <<>> /\ unused = <<>>

\* A file could not be read after identifiers had been collected.
WitnessAbortAfterCollecting ==
    /\ pc = "done"
    /\ error.name = "Error"
    /\ error.path \in SourceFiles
    /\ gmApiCalls # <<>>
    /\ Occurrences \ Granted # {}

\* C10, as claimed: a completed run prints exactly one of the success
\* message and the failure guidance.
ExactlyOneSummaryLine ==
    Completed =>
        Cardinality(LinesOf("success") \cup LinesOf("missingGuidance")) = 1

\* C10, amended: a completed run prints the failure guidance once when
\* something is missing, the success message once when nothing is missing
\* and nothing unused, and neither when grants are unused only: its last
\* line is then the warning's guidance.
SummaryLineUnlessOnlyUnused ==
    Completed =>
        LET onlyUnused ==
                /\ Occurrences \subseteq Granted
                /\ \E g \in Granted \ Occurrences :
                      StartsWith(g, <<"G", "M", "_">>)
        IN  /\ Cardinality(LinesOf("missingGuidance")) =
                  IF Occurrences \subseteq Granted THEN 0 ELSE 1
            /\ Cardinality(LinesOf("success")) =
                  IF Occurrences \subseteq Granted /\ ~onlyUnused
                  THEN 1 ELSE 0
            /\ onlyUnused =>
                  console[Len(console)].kind = "unusedGuidance"

\* A completed run with unused grants and nothing missing.
WitnessOnlyUnused ==
    /\ Completed
    /\ missing = <<>>
    /\ unused # <<>>
    /\ LinesOf("success") = {}

\* C11: the success message is printed exactly when missing and unused are
\* both empty; with an empty grant array and no GM_ identifier in the
\* sources the run prints it and exits with 0; with unused grants only the
\* run exits with 0 and does not print it.
SuccessIffNothingFound ==
    /\ LinesOf("success") # {} => Completed \/ pc = "exit"
    /\ Completed =>
          /\ LinesOf("success") # {} <=> (missing = <<>> /\ unused = <<>>)
          /\ (metaFile.hasGrant /\ metaFile.grant = <<>> /\ Occurrences = {})
                => /\ missing = <<>>
                   /\ unused = <<>>
                   /\ exitCode = 0
                   /\ console = <<Line("log", "success", <<>>, <<>>)>>
          /\ (missing = <<>> /\ unused # <<>>)
                => exitCode = 0 /\ LinesOf("success") = {}

\* The third scenario of the specification has run.
WitnessScenarioNothingFound ==
    /\ Completed
    /\ metaFile.hasGrant
    /\ metaFile.grant = <<>>
    /\ Occurrences = {}
    /\ LinesOf("success") # {}

\* C12: 'none' is never in missing or unused and never printed as either;
\* when it is the only grant and the sources hold no GM_ identifier, both
\* are empty and the run exits with 0.
SentinelNeverReported ==
    /\ ~Has(missing, none) /\ ~Has(unused, none)
    /\ none \notin Printed("missingItem") \cup Printed("unusedItem")
    /\ (Completed /\ metaFile.grant = <<none>> /\ Occurrences = {})
          => missing = <<>> /\ unused = <<>> /\ exitCode = 0

\* 'none' is the only grant and the sources hold no GM_ identifier.
WitnessSentinelAlone ==
    /\ Completed
    /\ grants = <<none>>
    /\ gmApiCalls = <<>>
    /\ exitCode = 0

\* C13: a second run on the same manifest and source tree ends with the
\* exit code, the missing set and the unused set of the first.
SecondRunSameOutcome ==
    (previous.ran /\ pc = "done") => Outcome = previous

\* Both runs are over, the second with the directories listed in reverse,
\* and something was missing and something unused.
WitnessSecondRun ==
    /\ previous.ran
    /\ pc = "done"
    /\ srcTree.reversed
    /\ previous.missing # {}
    /\ previous.unused # {}

\* C14: no step of a run changes meta.json or anything under src/, and the
\* only fs functions called are the three that read.
InputsUnchanged ==
    /\ [][metaFile' = metaFile /\ srcTree' = srcTree]_vars
    /\ [](\A k \in 1..Len(calls) :
             calls[k].fn \in {"readFileSync", "readdirSync", "statSync"})

\* A completed run that read files, printed a report and exited with 1.
WitnessReportedAndExited ==
    /\ Completed
    /\ \E k \in 1..Len(calls) : calls[k].fn = "readdirSync"
    /\ \E k \in 1..Len(calls) : calls[k].path = utilsPath
    /\ LinesOf("missingItem") # {}
    /\ LinesOf("unusedItem") # {}
    /\ exitCode = 1

\* The paths one fs function was called with.
PathsOf(fn) == {calls[k].path : k \in {j \in 1..Len(calls) : calls[j].fn = fn}}

\* C15: a file's text is read exactly when its name ends in .ts or .js; every
\* directory, at any depth and whatever its name, is listed; the identifiers
\* of every such file are collected.
ReadsExactlySourceFiles ==
    /\ PathsOf("readFileSync") \subseteq SourceFiles \cup {metaPath}
    /\ PathsOf("readdirSync") \subseteq Dirs
    /\ Completed =>
          /\ \A p \in Files :
                p \in PathsOf("readFileSync") <=>
                   \/ EndsWith(p[Len(p)], <<".", "t", "s">>)
                   \/ EndsWith(p[Len(p)], <<".", "j", "s">>)
          /\ PathsOf("readdirSync") = Dirs
          /\ PathsOf("statSync") = (Dirs \cup Files) \ {srcDir}
          /\ \A p \in SourceFiles :
                Range(MatchAll(srcTree.text[p])) \subseteq Range(gmApiCalls)

\* app.tsx was looked at and not read; the file under src/lib/dom.ts was
\* read and gave GM_getValue.
WitnessSkippedAndDescended ==
    /\ Completed
    /\ appPath \in PathsOf("statSync") \ PathsOf("readFileSync")
    /\ typesPath \in PathsOf("readFileSync")
    /\ srcTree.text[typesPath] = TextTwice
    /\ gmApiCalls = <<GM_getValue>>

\* C16: a manifest that parses and has no "grant" gives an empty grant set:
\* the run goes on to the walk, every GM_ identifier of the sources is
\* printed as missing and nothing as unused.
NoGrantFieldIsEmptySet ==
    (metaFile.kind = "json" /\ ~metaFile.hasGrant) =>
        /\ grants = <<>>
        /\ pc = "done" => Len(calls) > 1
        /\ Completed =>
              /\ Printed("missingItem") = Occurrences
              /\ Printed("unusedItem") = {}
              /\ unused = <<>>
              /\ exitCode = IF Occurrences = {} THEN 0 ELSE 1

\* A completed run on a manifest without "grant" and sources that use GM_
\* identifiers.
WitnessNoGrantField ==
    /\ Completed
    /\ metaFile.kind = "json"
    /\ ~metaFile.hasGrant
    /\ Cardinality(Printed("missingItem")) = 2

\* The lines of one kind the version check printed.
SyncLinesOf(kind) ==
    {k \in 1..Len(syncConsole) : syncConsole[k].kind = kind}

\* Both files were read and the process has ended.
SyncCompared ==
    /\ syncPc = "done"
    /\ packageFile.kind = "json"
    /\ metaJsonFile.kind = "json"

\* C17: the version check exits with 0, after the in-sync message, exactly
\* when the two version fields are the same value of the same type; when
\* they differ it prints both versions, exits with 1 and never prints the
\* in-sync message.
VersionSyncIffEqual ==
    /\ SyncLinesOf("inSync") # {} =>
          packageFile.version = metaJsonFile.version
    /\ SyncCompared =>
          /\ syncExit \in {0, 1}
          /\ syncExit = 0 <=> packageFile.version = metaJsonFile.version
          /\ syncExit = 0 =>
                syncConsole = <<SyncLine("log", "inSync", packageFile.version)>>
          /\ syncExit = 1 =>
                /\ SyncLinesOf("inSync") = {}
                /\ \E k \in SyncLinesOf("package.json") :
                      syncConsole[k].version = packageFile.version
                /\ \E k \in SyncLinesOf("meta.json") :
                      syncConsole[k].version = metaJsonFile.version

\* package.json has the string "1" and meta.json the number 1: a mismatch.
WitnessNumberAndString ==
    /\ SyncCompared
    /\ packageFile.version = String(<<"1">>)
    /\ metaJsonFile.version = Number(<<"1">>)
    /\ syncExit = 1

\* C18: every call of log makes one call of console.log, with '[UserScript] '
\* followed by the message, the empty message included; the calls of
\* console.log are in the order of the calls of log.
LogPrefixesEachMessage ==
    /\ Len(consoleLog) = Len(logCalls)
    /\ \A k \in 1..Len(logCalls) :
          consoleLog[k] =
             <<"[", "U", "s", "e", "r", "S", "c", "r", "i", "p", "t", "]",
               " ">> \o logCalls[k]

\* log was called with 'First message' and then with the empty message.
WitnessTwoLogCalls ==
    /\ Len(logCalls) = 2
    /\ logCalls[1] # <<>>
    /\ logCalls[2] = <<>>
    /\ Len(consoleLog[2]) = 13

\* C19, as claimed: when the import of the entry module completes, log has
\* been called with the greeting.
ImportLogsHello ==
    [][(~imported /\ imported') => logCalls' = Append(logCalls, Hello)]_vars

\* C19, amended: when the import completes, log has been called with the
\* greeting unless the module is src/index.ts and document.readyState was
\* 'loading'; then main is a DOMContentLoaded listener and log is called
\* with the greeting when the event is dispatched.
ImportLogsHelloUnlessLoading ==
    /\ [][(~imported /\ imported') =>
             IF entry = "waits" /\ readyState = "loading"
             THEN /\ logCalls' = logCalls
                  /\ listeners' = <<"main">>
             ELSE /\ logCalls' = Append(logCalls, Hello)
                  /\ listeners' = <<>>]_vars
    /\ [][(imported /\ listeners # <<>> /\ readyState = "loading"
             /\ readyState' # "loading")
             => logCalls' = Append(logCalls, Hello)]_vars

\* src/index.ts was imported while the document was loading: main waits.
WitnessImportedWhileLoading ==
    /\ imported
    /\ entry = "waits"
    /\ readyState = "loading"
    /\ listeners = <<"main">>
    /\ mainCalls = 0

\* C20: the configuration that reads BUILD sets output.sourcemap to 'inline'
\* exactly when BUILD is the string 'development', and to false when BUILD
\* is unset or anything else, whatever NODE_ENV is.
SourcemapIffDevelopmentBuild ==
    (configFile = "env" /\ sourcemap # "none") =>
        /\ sourcemap \in {"inline", "false"}
        /\ sourcemap = "inline" <=>
              env.BUILD = [set |-> TRUE,
                           val |-> <<"d", "e", "v", "e", "l", "o", "p", "m",
                                     "e", "n", "t">>]

\* BUILD is unset and NODE_ENV is 'development': no source maps.
WitnessNodeEnvIsNotBuild ==
    /\ configFile = "env"
    /\ env.BUILD = Unset
    /\ env.NODE_ENV = Set(development)
    /\ sourcemap = "false"

\* C21: when the walk is over gmApiCalls holds exactly the identifiers of
\* every .ts and .js file under src/; no step of the walk takes an entry
\* out of it; each entry is the bare identifier, once, without the file or
\* the place it came from.
OccurrenceSetIsUnionAndGrows ==
    /\ [](pc \in {"missing", "unused", "reportMissing", "reportUnused",
                  "reportSuccess", "exit"} \/ Completed
             => Range(gmApiCalls) =
                   UNION {Range(MatchAll(srcTree.text[p])) : p \in SourceFiles})
    /\ [][/\ Len(gmApiCalls') >= Len(gmApiCalls)
          /\ SubSeq(gmApiCalls', 1, Len(gmApiCalls)) = gmApiCalls]_vars
    /\ [](\A k \in 1..Len(gmApiCalls) :
             /\ Range(gmApiCalls[k]) \subseteq WordChars
             /\ \A j \in 1..Len(gmApiCalls) :
                   gmApiCalls[j] = gmApiCalls[k] => j = k)

\* The walk is over and the set holds identifiers of two files, one of them
\* found in both.
WitnessCollectedFromTwoFiles ==
    /\ pc = "missing"
    /\ srcTree.text[indexPath] = TextSetGet
    /\ srcTree.text[utilsPath] = TextTwice
    /\ srcTree.text[typesPath] = TextEmpty
    /\ Range(gmApiCalls) = {GM_setValue, GM_getValue}

\* C22: src/index.ts calls main once per load.  Imported while the document
\* is loading, it registers main for DOMContentLoaded and main is called
\* when the event is dispatched, not before; imported later, it calls main
\* during the import and registers no listener.
MainInvokedOncePerLoad ==
    /\ [](entry = "waits" =>
             mainCalls =
                IF imported /\ (listeners = <<>> \/ readyState # "loading")
                THEN 1 ELSE 0)
    /\ [][(entry = "waits" /\ ~imported /\ imported') =>
             IF readyState = "loading"
             THEN mainCalls' = 0 /\ listeners' = <<"main">>
             ELSE mainCalls' = 1 /\ listeners' = <<>>]_vars
    /\ [][(entry = "waits" /\ mainCalls' # mainCalls) =>
             /\ mainCalls' = mainCalls + 1
             /\ \/ ~imported /\ imported' /\ readyState # "loading"
                \/ /\ imported
                   /\ listeners = <<"main">>
                   /\ readyState = "loading"
                   /\ readyState' = "interactive"]_vars

\* src/index.ts was imported while the document was loading, the event has
\* been dispatched and main has run once.
WitnessMainRanOnEvent ==
    /\ entry = "waits"
    /\ imported
    /\ listeners = <<"main">>
    /\ readyState = "complete"
    /\ mainCalls = 1
    /\ logCalls = <<Hello>>

\* C23: the steps of a run are in one order.  meta.json is the first file
\* read, once, and it has been parsed into grants before any call on src/;
\* when the first line of the report is printed every directory has been
\* listed and every source file read; every line of the missing report
\* comes before every line of the unused report; the exit code is set by
\* the last step, after which the process does nothing.
StepsInFixedOrder ==
    /\ \A k \in 1..Len(calls) : calls[k].path = metaPath <=> k = 1
    /\ Len(calls) > 1 =>
          /\ metaFile.kind = "json"
          /\ grants = NewSet(GrantOrEmpty(metaFile))
    /\ ~NoReport =>
          /\ pc \in {"reportUnused", "reportSuccess", "exit", "done"}
          /\ stack = <<>>
          /\ PathsOf("readdirSync") = Dirs
          /\ PathsOf("statSync") = (Dirs \cup Files) \ {srcDir}
          /\ PathsOf("readFileSync") = SourceFiles \cup {metaPath}
    /\ \A i \in LinesOf("missingHeader") \cup LinesOf("missingItem")
                   \cup LinesOf("missingGuidance") :
          \A j \in LinesOf("unusedHeader") \cup LinesOf("unusedItem")
                      \cup LinesOf("unusedGuidance") : i < j
    /\ exitCode # -1 => pc = "done"
    /\ pc = "done" => ~ENABLED Next

\* A run that printed a missing report and an unused report and has exited.
WitnessBothReportsInOrder ==
    /\ Completed
    /\ Len(calls) = 13
    /\ console[1].kind = "missingHeader"
    /\ console[Len(console)].kind = "unusedGuidance"
    /\ LinesOf("unusedHeader") # {}

\* C24: every run ends.  No fs call is made twice; a run that completes has
\* listed each directory and read each .ts and .js file, once, and exits
\* with 0 or 1; a run that fails ends with code 1 at the call that failed.
WalkTerminates ==
    /\ <>(pc = "done")
    /\ [](\A j, k \in 1..Len(calls) : calls[j] = calls[k] => j = k)
    /\ [](Completed =>
             /\ PathsOf("readdirSync") = Dirs
             /\ PathsOf("readFileSync") = SourceFiles \cup {metaPath}
             /\ Len(calls) = Cardinality(Dirs) + Cardinality(SourceFiles)
                                + Cardinality((Dirs \cup Files) \ {srcDir}) + 1
             /\ exitCode \in {0, 1})
    /\ [](error # NoError =>
             /\ pc = "done"
             /\ exitCode = 1
             /\ \/ error.name = "SyntaxError"
                \/ error.path = calls[Len(calls)].path)

\* A run over the whole tree, three directories deep, that has exited.
WitnessWalkedAndExited ==
    /\ Completed
    /\ PathsOf("readdirSync") = {srcDir, libDir, domDir}
    /\ typesPath \in PathsOf("readFileSync")
    /\ exitCode = 0

\* The identifiers a walk in name order collects: src/index.ts, then
\* src/lib/dom.ts/types.d.ts, then src/lib/utils.js.
FoundInNameOrder ==
    AddAll(AddAll(AddAll(<<>>, MatchAll(srcTree.text[indexPath])),
                  MatchAll(srcTree.text[typesPath])),
           MatchAll(srcTree.text[utilsPath]))

\* C25: whatever the order in which the entries of the directories are
\* listed, a completed run ends with the missing set, the unused set and the
\* exit code of the walk in name order.
ResultsSameInAnyOrder ==
    Completed =>
        LET missingInNameOrder ==
                SelectSeq(FoundInNameOrder, LAMBDA api : ~Has(grants, api))
            unusedInNameOrder ==
                SelectSeq(grants,
                          LAMBDA grant :
                              /\ grant # none
                              /\ StartsWith(grant, <<"G", "M", "_">>)
                              /\ ~Has(FoundInNameOrder, grant))
        IN  /\ Range(gmApiCalls) = Range(FoundInNameOrder)
            /\ Range(missing) = Range(missingInNameOrder)
            /\ Range(unused) = Range(unusedInNameOrder)
            /\ exitCode = IF missingInNameOrder # <<>> THEN 1 ELSE 0

\* A completed run that listed src/ as lib, index.ts, app.tsx and found the
\* missing identifiers in another order than the walk in name order does.
WitnessOtherOrderSameSets ==
    /\ Completed
    /\ srcTree.order[srcDir] = <<lib, index_ts, app_tsx>>
    /\ srcTree.order[libDir] = <<dom_ts, utils_js>>
    /\ Len(missing) = 3
    /\ missing # SelectSeq(FoundInNameOrder, LAMBDA api : ~Has(grants, api))
    /\ Range(missing) = Range(FoundInNameOrder) \ Range(grants)
    /\ unused # <<>>

\* C26: in a completed run every element of missing is an occurrence, every
\* element of unused is a grant, no string is in both, and every element of
\* either starts with GM_.
ResultSetsWellFormed ==
    Completed =>
        /\ Range(missing) \subseteq Range(gmApiCalls)
        /\ Range(missing) \subseteq Occurrences
        /\ Range(unused) \subseteq Range(grants)
        /\ Range(unused) \subseteq Granted
        /\ Range(missing) \cap Range(unused) = {}
        /\ \A api \in Range(missing) \cup Range(unused) :
              /\ Len(api) > 3
              /\ api[1] = "G" /\ api[2] = "M" /\ api[3] = "_"

\* A completed run with a missing identifier, an unused grant and a grant
\* that does not start with GM_.
WitnessMissingUnusedAndOther ==
    /\ Completed
    /\ grants = <<unsafeWindow, GM_notification>>
    /\ unused = <<GM_notification>>
    /\ Has(missing, GM_setValues)

\* The tokens of a text: GM_ and one or more word characters, with no word
\* character before and none after.
Tokens(text) ==
    {SubSeq(text, pq[1], pq[2]) :
        pq \in {pq \in (1..Len(text)) \X (1..Len(text)) :
                   /\ pq[1] + 3 <= pq[2]
                   /\ text[pq[1]] = "G"
                   /\ text[pq[1] + 1] = "M"
                   /\ text[pq[1] + 2] = "_"
                   /\ pq[1] = 1 \/ text[pq[1] - 1] \notin WordChars
                   /\ \A i \in (pq[1] + 3)..pq[2] : text[i] \in WordChars
                   /\ pq[2] = Len(text) \/ text[pq[2] + 1] \notin WordChars}}

\* C27: the identifiers taken from a file are its tokens, each at its full
\* length, whether in a call, a comment or a string literal; GM_addStyle in
\* a comment or a string only is printed as missing when it is not granted
\* and is not printed as unused when it is.
ExtractionTakesEveryToken ==
    /\ \A p \in SourceFiles :
          p \in PathsOf("readFileSync") =>
             Tokens(srcTree.text[p]) \subseteq Range(gmApiCalls)
    /\ Range(gmApiCalls) \subseteq UNION {Tokens(srcTree.text[p]) : p \in SourceFiles}
    /\ Completed =>
          /\ Range(gmApiCalls) = UNION {Tokens(srcTree.text[p]) : p \in SourceFiles}
          /\ srcTree.text[utilsPath] \in {TextCommented, TextQuoted, TextCall} =>
                /\ Has(gmApiCalls, GM_addStyle)
                /\ ~Has(unused, GM_addStyle)
                /\ GM_addStyle \notin Printed("unusedItem")
                /\ IF Has(grants, GM_addStyle)
                   THEN GM_addStyle \notin Printed("missingItem")
                   ELSE /\ GM_addStyle \in Printed("missingItem")
                        /\ exitCode = 1
          /\ srcTree.text[utilsPath] = TextEmpty /\ Has(grants, GM_addStyle) =>
                GM_addStyle \in Printed("unusedItem")
          /\ srcTree.text[indexPath] = TextTricky =>
                /\ Has(gmApiCalls, GM_setValues)
                /\ ~Has(gmApiCalls, GM_getValue)
                /\ ~Has(gmApiCalls, GM_setValue)

\* GM_addStyle is in a comment only and not granted: it is reported missing.
WitnessCommentedOutIsMissing ==
    /\ Completed
    /\ srcTree.text[utilsPath] = TextCommented
    /\ srcTree.text[indexPath] = TextEmpty
    /\ grants = <<>>
    /\ missing = <<GM_addStyle>>
    /\ exitCode = 1

\* C28: the version check does not ask whether a version is there.  When
\* neither package.json nor meta.json has "version" it prints the in-sync
\* message, with undefined as the version, and exits with 0; when one of
\* them has none it prints the mismatch, undefined for one side, and exits
\* with 1.
AbsentVersionsCompared ==
    SyncCompared =>
        LET absent == {f \in {"package.json", "meta.json"} :
                          IF f = "package.json"
                          THEN packageFile.version.type = "undefined"
                          ELSE metaJsonFile.version.type = "undefined"}
        IN  /\ Cardinality(absent) = 2 =>
                  /\ syncExit = 0
                  /\ syncConsole =
                        <<[fn |-> "log", kind |-> "inSync",
                           version |-> [type |-> "undefined", val |-> <<>>]]>>
            /\ Cardinality(absent) = 1 =>
                  /\ syncExit = 1
                  /\ Len(syncConsole) = 4
                  /\ syncConsole[1].kind = "mismatch"
                  /\ \A k \in 1..4 :
                        syncConsole[k].kind \in absent =>
                           syncConsole[k].version.type = "undefined"
                  /\ \E k \in 1..4 : syncConsole[k].kind \in absent

\* Neither file has a version and the check has passed.
WitnessBothVersionsAbsent ==
    /\ SyncCompared
    /\ packageVersion = Undefined
    /\ metaVersion = Undefined
    /\ syncExit = 0

====
